---------------------------- MODULE Spec2Model ----------------------------
(***************************************************************************)
(* A model of the EV-Insights "Smart EV Match Finder"                      *)
(* (src/improved_ev_advisor.py): the quick and the detailed form handlers  *)
(* of create_improved_ev_advisor (candidate filters), the scorer           *)
(* display_recommendations and get_diverse_alternatives.                   *)
(*                                                                         *)
(* A data frame is a sequence of rows in load order; a filtered or sorted  *)
(* frame is a sequence of row numbers of df.  pandas' NaN is the value NaN *)
(* in a raw column and the record RNaN in a computed (float) column.       *)
(* Floats are modelled as exact reduced fractions.                         *)
(***************************************************************************)
EXTENDS Integers, Sequences, FiniteSets, TLC

(***************************************************************************)
(* Bounds of the model.                                                    *)
(***************************************************************************)
MinVehicles == 6

MaxVehicles == 8

MaxAbsent == 1

MaxTierRows == 2

(***************************************************************************)
(* Float arithmetic: NaN-propagating exact fractions.                      *)
(***************************************************************************)
NaN == -1

Abs(x) == IF x < 0 THEN -x ELSE x

RECURSIVE GCD(_, _)
GCD(a, b) == IF b = 0 THEN a ELSE GCD(b, a % b)

RNaN == [nan |-> TRUE, n |-> 0, d |-> 1]

Rat(n, d) ==
    LET g == GCD(Abs(n), Abs(d))
        s == IF d < 0 THEN -1 ELSE 1
    IN  [nan |-> FALSE, n |-> s * (n \div g), d |-> s * (d \div g)]

FromInt(x) == IF x = NaN THEN RNaN ELSE Rat(x, 1)

IsNa(r) == r.nan

RAdd(a, b) == IF a.nan \/ b.nan THEN RNaN ELSE Rat(a.n * b.d + b.n * a.d, a.d * b.d)

RSub(a, b) == IF a.nan \/ b.nan THEN RNaN ELSE Rat(a.n * b.d - b.n * a.d, a.d * b.d)

RMul(a, b) == IF a.nan \/ b.nan THEN RNaN ELSE Rat(a.n * b.n, a.d * b.d)

RDiv(a, b) == IF a.nan \/ b.nan \/ b.n = 0 THEN RNaN ELSE Rat(a.n * b.d, a.d * b.n)

\* Every comparison with NaN is false, as for IEEE floats.
RLt(a, b) == ~a.nan /\ ~b.nan /\ a.n * b.d < b.n * a.d

RLe(a, b) == ~a.nan /\ ~b.nan /\ a.n * b.d <= b.n * a.d

REq(a, b) == ~a.nan /\ ~b.nan /\ a.n * b.d = b.n * a.d

Half == Rat(1, 2)

One == Rat(1, 1)

Zero == Rat(0, 1)

(***************************************************************************)
(* Sequence helpers (pandas frame operations on row-number sequences).     *)
(***************************************************************************)
Range(s) == {s[k] : k \in DOMAIN s}

\* frame.head(n), frame[:n]
HeadRows(frame, n) == SubSeq(frame, 1, IF Len(frame) < n THEN Len(frame) ELSE n)

\* A computed column, stored: the function f with every value evaluated once.
Stored(f) == f @@ << >>

\* Series.min() / Series.max() of the known values (skipna), NaN if none.
SetMin(S) == IF S = {} THEN NaN ELSE CHOOSE x \in S : \A y \in S : x <= y

SetMax(S) == IF S = {} THEN NaN ELSE CHOOSE x \in S : \A y \in S : x >= y

(***************************************************************************)
(* The form options and the hand-authored tables.                          *)
(***************************************************************************)
UseCases ==
    << "Daily commuting (< 50 mi/day)",
       "Regular road trips (> 200 mi)",
       "Family hauling & errands",
       "Weekend fun & performance",
       "General purpose / Not sure" >>

RangeNeeds ==
    << "Not critical (city driving)",
       "Moderate (occasional trips)",
       "Important (regular highway)",
       "Essential (frequent road trips)" >>

Budgets ==
    << "Budget-conscious (< $40k)",
       "Mid-range ($40k - $60k)",
       "Premium ($60k - $80k)",
       "Luxury (> $80k)",
       "No preference" >>

range_requirements ==
    [u \in Range(UseCases) |->
        CASE u = "Daily commuting (< 50 mi/day)" ->
                [r \in Range(RangeNeeds) |->
                    CASE r = "Not critical (city driving)" -> 100
                      [] r = "Moderate (occasional trips)" -> 150
                      [] r = "Important (regular highway)" -> 200
                      [] r = "Essential (frequent road trips)" -> 250]
          [] u = "Regular road trips (> 200 mi)" ->
                [r \in Range(RangeNeeds) |->
                    CASE r = "Not critical (city driving)" -> 200
                      [] r = "Moderate (occasional trips)" -> 250
                      [] r = "Important (regular highway)" -> 300
                      [] r = "Essential (frequent road trips)" -> 350]
          [] u = "Family hauling & errands" ->
                [r \in Range(RangeNeeds) |->
                    CASE r = "Not critical (city driving)" -> 120
                      [] r = "Moderate (occasional trips)" -> 180
                      [] r = "Important (regular highway)" -> 240
                      [] r = "Essential (frequent road trips)" -> 280]
          [] u = "Weekend fun & performance" ->
                [r \in Range(RangeNeeds) |->
                    CASE r = "Not critical (city driving)" -> 150
                      [] r = "Moderate (occasional trips)" -> 200
                      [] r = "Important (regular highway)" -> 250
                      [] r = "Essential (frequent road trips)" -> 300]
          [] u = "General purpose / Not sure" ->
                [r \in Range(RangeNeeds) |->
                    CASE r = "Not critical (city driving)" -> 120
                      [] r = "Moderate (occasional trips)" -> 180
                      [] r = "Important (regular highway)" -> 220
                      [] r = "Essential (frequent road trips)" -> 260]]

budget_ranges ==
    [b \in Range(Budgets) |->
        CASE b = "Budget-conscious (< $40k)" -> <<0, 40000>>
          [] b = "Mid-range ($40k - $60k)" -> <<40000, 60000>>
          [] b = "Premium ($60k - $80k)" -> <<60000, 80000>>
          [] b = "Luxury (> $80k)" -> <<80000, 999999>>
          [] b = "No preference" -> <<0, 999999>>]

\* Base MSRP.fillna(999999) and Electric Range.fillna(0) of the filters.
MsrpFill == 999999

RangeFill == 0

FillNa(x, v) == IF x = NaN THEN v ELSE x

\* The step of the relaxation the quick "no matches" notice suggests.
RelaxStep == 50

(***************************************************************************)
(* Columns of the vehicle collection.  Make and Electric Vehicle Type are  *)
(* the columns the loader requires; the four below may be absent.          *)
(***************************************************************************)
MSRP == "Base MSRP"

RANGE == "Electric Range"

YEAR == "Model Year"

CAFV == "Clean Alternative Fuel Vehicle (CAFV) Eligibility"

OptionalColumns == {MSRP, RANGE, YEAR, CAFV}

BEV == "Battery Electric Vehicle (BEV)"

PHEV == "Plug-in Hybrid Electric Vehicle (PHEV)"

(***************************************************************************)
(* Text of the CAFV column: str.contains("eligible", case=False) on the    *)
(* characters of the text.                                                 *)
(***************************************************************************)
NoText == "NaN"

CafvEligible == "Clean Alternative Fuel Vehicle Eligible"

CafvNotEligible == "Not eligible due to low battery range"

CafvUnknown == "Eligibility unknown as battery range has not been researched"

CafvTexts == {CafvEligible, CafvNotEligible, CafvUnknown, NoText}

\* astype(str): the characters of a text; a missing value reads "nan".
AsStr(t) ==
    CASE t = CafvEligible ->
      << "C", "l", "e", "a", "n", " ", "A", "l", "t", "e", "r", "n", "a", "t", "i", "v",
         "e", " ", "F", "u", "e", "l", " ", "V", "e", "h", "i", "c", "l", "e", " ", "E",
         "l", "i", "g", "i", "b", "l", "e" >>
      [] t = CafvNotEligible ->
      << "N", "o", "t", " ", "e", "l", "i", "g", "i", "b", "l", "e", " ", "d", "u", "e",
         " ", "t", "o", " ", "l", "o", "w", " ", "b", "a", "t", "t", "e", "r", "y", " ",
         "r", "a", "n", "g", "e" >>
      [] t = CafvUnknown ->
      << "E", "l", "i", "g", "i", "b", "i", "l", "i", "t", "y", " ", "u", "n", "k", "n",
         "o", "w", "n", " ", "a", "s", " ", "b", "a", "t", "t", "e", "r", "y", " ", "r",
         "a", "n", "g", "e", " ", "h", "a", "s", " ", "n", "o", "t", " ", "b", "e", "e",
         "n", " ", "r", "e", "s", "e", "a", "r", "c", "h", "e", "d" >>
      [] t = NoText -> << "n", "a", "n" >>

LowerChar(c) ==
    CASE c = "A" -> "a" [] c = "C" -> "c" [] c = "E" -> "e" [] c = "F" -> "f"
      [] c = "N" -> "n" [] c = "V" -> "v" [] OTHER -> c

Lower(s) == [k \in DOMAIN s |-> LowerChar(s[k])]

Contains(s, pat) ==
    \E k \in 0..(Len(s) - Len(pat)) : \A j \in 1..Len(pat) : s[k + j] = pat[j]

Eligible == << "e", "l", "i", "g", "i", "b", "l", "e" >>

\* The texts for which .astype(str).str.contains("eligible", case=False) is True.
EligibleTexts == {t \in CafvTexts : Contains(Lower(AsStr(t)), Eligible)}

ContainsEligible(t) == t \in EligibleTexts


(***************************************************************************)
(* The vehicle collection handed to create_improved_ev_advisor.            *)
(* Catalogue holds the rows a collection is drawn from: several brands,    *)
(* equal and unknown prices, unknown range and year, the three CAFV texts  *)
(* of the registry data.  Prices are in dollars.                           *)
(***************************************************************************)
Catalogue ==
    << [make |-> "TESLA", year |-> 2023, range |-> 350, msrp |-> 3,
        type |-> BEV, cafv |-> CafvEligible],
       [make |-> "NISSAN", year |-> 2020, range |-> 150, msrp |-> 1,
        type |-> BEV, cafv |-> CafvEligible],
       [make |-> "CHEVROLET", year |-> 2021, range |-> 250, msrp |-> 1,
        type |-> PHEV, cafv |-> CafvNotEligible],
       [make |-> "FORD", year |-> 2022, range |-> 300, msrp |-> 2,
        type |-> BEV, cafv |-> CafvEligible],
       [make |-> "KIA", year |-> 2022, range |-> 350, msrp |-> NaN,
        type |-> BEV, cafv |-> CafvUnknown],
       [make |-> "BMW", year |-> NaN, range |-> 300, msrp |-> 0,
        type |-> PHEV, cafv |-> NoText],
       [make |-> "TESLA", year |-> 2020, range |-> 250, msrp |-> 1,
        type |-> BEV, cafv |-> CafvEligible],
       [make |-> "HYUNDAI", year |-> 2021, range |-> NaN, msrp |-> 2,
        type |-> PHEV, cafv |-> CafvNotEligible] >>

\* The value of a row in one of the optional columns.
Cell(row, col) ==
    CASE col = MSRP -> row.msrp
      [] col = RANGE -> row.range
      [] col = YEAR -> row.year
      [] col = CAFV -> row.cafv

\* A collection without a column holds nothing in it.
Project(row, cols) ==
    [make |-> row.make,
     type |-> row.type,
     year |-> IF YEAR \in cols THEN row.year ELSE NaN,
     range |-> IF RANGE \in cols THEN row.range ELSE NaN,
     msrp |-> IF MSRP \in cols THEN row.msrp ELSE NaN,
     cafv |-> IF CAFV \in cols THEN row.cafv ELSE NoText]

\* The collections: the first MinVehicles to MaxVehicles rows of Catalogue.
Collections ==
    {SubSeq(Catalogue, 1, n) :
        n \in {m \in MinVehicles..MaxVehicles : m <= Len(Catalogue)}}

\* The sets of optional columns a collection may have: at most MaxAbsent absent.
ColumnSets ==
    {cols \in SUBSET OptionalColumns :
        Cardinality(OptionalColumns \ cols) <= MaxAbsent}

AllRows(frame) == [k \in 1..Len(frame) |-> k]

(***************************************************************************)
(* The candidate filters of the two form handlers.                         *)
(***************************************************************************)
\* The budget filter with the lower bound exclusive.
BudgetFilter_ExclusiveMin(frame, cand, cols, budget_choice) ==
    LET min_price == budget_ranges[budget_choice][1]
        max_price == budget_ranges[budget_choice][2]
        InBudget(i) == /\ FillNa(frame[i].msrp, MsrpFill) > min_price
                       /\ FillNa(frame[i].msrp, MsrpFill) <= max_price
    IN  IF MSRP \in cols THEN SelectSeq(cand, InBudget) ELSE cand

\* Budget filter: improved_ev_advisor.py 158-164 (quick), 288-294 (detailed).
BudgetFilter(frame, cand, cols, budget_choice) ==
    LET min_price == budget_ranges[budget_choice][1]
        max_price == budget_ranges[budget_choice][2]
        InBudget(i) == /\ FillNa(frame[i].msrp, MsrpFill) >= min_price
                       /\ FillNa(frame[i].msrp, MsrpFill) <= max_price
    IN  IF MSRP \in cols THEN SelectSeq(cand, InBudget) ELSE cand

\* The range filter with a strict comparison.
RangeFilter_Strict(frame, cand, cols, min_range) ==
    LET FarEnough(i) == FillNa(frame[i].range, RangeFill) > min_range
    IN  IF RANGE \in cols THEN SelectSeq(cand, FarEnough) ELSE cand

\* Range filter: improved_ev_advisor.py 166-169 (quick), 296-301 (detailed).
RangeFilter(frame, cand, cols, min_range) ==
    LET FarEnough(i) == FillNa(frame[i].range, RangeFill) >= min_range
    IN  IF RANGE \in cols THEN SelectSeq(cand, FarEnough) ELSE cand

type_map ==
    [p \in {"Battery Electric (BEV only)", "Plug-in Hybrid (PHEV only)"} |->
        IF p = "Battery Electric (BEV only)" THEN BEV ELSE PHEV]

TypeFilter(frame, cand, ev_type_pref) ==
    LET OfType(i) == frame[i].type = type_map[ev_type_pref]
    IN  IF ev_type_pref # "Any (show me all)" THEN SelectSeq(cand, OfType) ELSE cand

BrandFilter(frame, cand, brand_pref) ==
    LET Preferred(i) == frame[i].make \in brand_pref
    IN  IF brand_pref # {} THEN SelectSeq(cand, Preferred) ELSE cand

\* NaN >= year_pref is False: a row of unknown year is dropped.  Without the
\* column year_pref is not set ('year_pref' in locals() is False).
YearFilter(frame, cand, cols, year_pref) ==
    LET NewEnough(i) == frame[i].year # NaN /\ frame[i].year >= year_pref
    IN  IF year_pref # NaN /\ YEAR \in cols THEN SelectSeq(cand, NewEnough) ELSE cand

CafvFilter(frame, cand, cols, cafv_pref) ==
    LET IsEligible(i) == ContainsEligible(frame[i].cafv)
    IN  IF cafv_pref = "Must be CAFV eligible" /\ CAFV \in cols
        THEN SelectSeq(cand, IsEligible) ELSE cand


(***************************************************************************)
(* display_recommendations: normalisation and component scores.            *)
(***************************************************************************)
RMin(S) == CHOOSE x \in S : \A y \in S : RLe(x, y)

RMax(S) == CHOOSE x \in S : \A y \in S : RLe(y, x)

\* The normalisation with 0 in place of the neutral 0.5.
ColNorm_ZeroFallback(frame, cand, cols, col) ==
    LET known == {Cell(frame[i], col) : i \in Range(cand)} \ {NaN}
        lo == SetMin(known)
        hi == SetMax(known)
    IN  IF col \in cols /\ known # {} /\ lo # hi
        THEN Stored([i \in Range(cand) |->
                        RDiv(RSub(FromInt(Cell(frame[i], col)), FromInt(lo)),
                             FromInt(hi - lo))])
        ELSE [i \in Range(cand) |-> Zero]

\* The f'{col}_norm' column: min-max normalisation over the known values,
\* 0.5 for every row when the column is absent, empty or constant.
ColNorm(frame, cand, cols, col) ==
    LET known == {Cell(frame[i], col) : i \in Range(cand)} \ {NaN}
        lo == SetMin(known)
        hi == SetMax(known)
    IN  IF col \in cols /\ known # {} /\ lo # hi
        THEN Stored([i \in Range(cand) |->
                        RDiv(RSub(FromInt(Cell(frame[i], col)), FromInt(lo)),
                             FromInt(hi - lo))])
        ELSE [i \in Range(cand) |-> Half]

\* The ratio without the + 1 in the denominator.
ValueRaw_NoPlusOne(row) == RDiv(FromInt(row.range), FromInt(row.msrp))

\* value_raw = Electric Range / (Base MSRP + 1)
ValueRaw(row) == RDiv(FromInt(row.range), RAdd(FromInt(row.msrp), One))

ValueScore(frame, cand, cols) ==
    LET raw == Stored([i \in Range(cand) |-> ValueRaw(frame[i])])
        known == {raw[i] : i \in Range(cand)} \ {RNaN}
        lo == RMin(known)
        hi == RMax(known)
    IN  IF /\ RANGE \in cols
           /\ MSRP \in cols
           /\ known # {}
           /\ RLt(lo, hi)
        THEN Stored([i \in Range(cand) |->
                        RDiv(RSub(raw[i], lo), RSub(hi, lo))])
        ELSE [i \in Range(cand) |-> Half]

NoCafvPref == "None"

\* The bonus as 1.0 in place of 0.1.
CafvBonus_Whole(row, cols, cafv_pref) ==
    IF cafv_pref = "Prefer CAFV eligible" /\ CAFV \in cols
    THEN (IF ContainsEligible(row.cafv) THEN One ELSE Zero)
    ELSE Zero

\* The bonus with a case-sensitive match.
CafvBonus_CaseSensitive(row, cols, cafv_pref) ==
    IF cafv_pref = "Prefer CAFV eligible" /\ CAFV \in cols
    THEN (IF Contains(AsStr(row.cafv), Eligible) THEN Rat(1, 10) ELSE Zero)
    ELSE Zero

CafvBonus(row, cols, cafv_pref) ==
    IF cafv_pref = "Prefer CAFV eligible" /\ CAFV \in cols
    THEN (IF ContainsEligible(row.cafv) THEN Rat(1, 10) ELSE Zero)
    ELSE Zero

(***************************************************************************)
(* Weights, in hundredths.                                                 *)
(***************************************************************************)
\* The weight table with 0.50 for the price weight of daily commuting.
use_case_weights_Heavy ==
    [u \in Range(UseCases) |->
        CASE u = "Daily commuting (< 50 mi/day)" ->
                [price |-> 50, range |-> 20, value |-> 25, newness |-> 10]
          [] u = "Regular road trips (> 200 mi)" ->
                [price |-> 25, range |-> 50, value |-> 15, newness |-> 10]
          [] u = "Family hauling & errands" ->
                [price |-> 35, range |-> 30, value |-> 25, newness |-> 10]
          [] u = "Weekend fun & performance" ->
                [price |-> 30, range |-> 30, value |-> 15, newness |-> 25]
          [] u = "General purpose / Not sure" ->
                [price |-> 35, range |-> 30, value |-> 25, newness |-> 10]]

use_case_weights ==
    [u \in Range(UseCases) |->
        CASE u = "Daily commuting (< 50 mi/day)" ->
                [price |-> 45, range |-> 20, value |-> 25, newness |-> 10]
          [] u = "Regular road trips (> 200 mi)" ->
                [price |-> 25, range |-> 50, value |-> 15, newness |-> 10]
          [] u = "Family hauling & errands" ->
                [price |-> 35, range |-> 30, value |-> 25, newness |-> 10]
          [] u = "Weekend fun & performance" ->
                [price |-> 30, range |-> 30, value |-> 15, newness |-> 25]
          [] u = "General purpose / Not sure" ->
                [price |-> 35, range |-> 30, value |-> 25, newness |-> 10]]

PriorityLabels ==
    {"Lowest price", "Longest range", "Brand reputation", "Latest technology",
     "Best value (range/price)"}

\* weight_map.get(label, default)
weight_map_get(label, default) ==
    CASE label = "Lowest price" -> "price"
      [] label = "Longest range" -> "range"
      [] label = "Brand reputation" -> "newness"
      [] label = "Latest technology" -> "newness"
      [] label = "Best value (range/price)" -> "value"
      [] OTHER -> default

ZeroWeights == [price |-> 0, range |-> 0, value |-> 0, newness |-> 0]

DefaultWeights == [price |-> 35, range |-> 30, value |-> 25, newness |-> 10]

\* The assignment weights[dim] = amount in place of +=.
Bump_Overwrite(w, dim, amount) == [w EXCEPT ![dim] = amount]

\* weights[dim] += amount
Bump(w, dim, amount) == [w EXCEPT ![dim] = @ + amount]

\* The priority weights without the line of the third rank.
PriorityWeights_FirstTwo(priorities) ==
    Bump(Bump(ZeroWeights,
              weight_map_get(priorities[1], "value"), 50),
         weight_map_get(priorities[2], "price"), 30)

PriorityWeights(priorities) ==
    Bump(Bump(Bump(ZeroWeights,
                   weight_map_get(priorities[1], "value"), 50),
              weight_map_get(priorities[2], "price"), 30),
         weight_map_get(priorities[3], "range"), 20)

Weights(method, use_case, priorities) ==
    IF method = "quick" THEN use_case_weights[use_case]
    ELSE IF priorities # << >> THEN PriorityWeights(priorities)
    ELSE DefaultWeights

Pct(w) == Rat(w, 100)

CompositeScore(w, s) ==
    RAdd(RAdd(RAdd(RAdd(RMul(Pct(w.price), s.price_score),
                        RMul(Pct(w.range), s.range_score)),
                   RMul(Pct(w.value), s.value_score)),
              RMul(Pct(w.newness), s.newness_score)),
         s.cafv_bonus)

\* The score frame with the price score not inverted.
ScoreFrame_PriceNotInverted(frame, cand, cols, w, cafv_pref) ==
    LET range_norm == ColNorm(frame, cand, cols, RANGE)
        msrp_norm == ColNorm(frame, cand, cols, MSRP)
        year_norm == ColNorm(frame, cand, cols, YEAR)
        value == ValueScore(frame, cand, cols)
        Parts(i) == [range_score |-> range_norm[i],
                     price_score |-> msrp_norm[i],
                     newness_score |-> year_norm[i],
                     value_score |-> value[i],
                     cafv_bonus |-> CafvBonus(frame[i], cols, cafv_pref)]
        Row(i) == LET s == Parts(i)
                  IN  [range_score |-> s.range_score,
                       price_score |-> s.price_score,
                       newness_score |-> s.newness_score,
                       value_score |-> s.value_score,
                       cafv_bonus |-> s.cafv_bonus,
                       composite_score |-> CompositeScore(w, s)]
    IN  Stored([i \in Range(cand) |-> Row(i)])

\* score_df: the score columns of every candidate row.
ScoreFrame(frame, cand, cols, w, cafv_pref) ==
    LET range_norm == ColNorm(frame, cand, cols, RANGE)
        msrp_norm == ColNorm(frame, cand, cols, MSRP)
        year_norm == ColNorm(frame, cand, cols, YEAR)
        value == ValueScore(frame, cand, cols)
        Parts(i) == [range_score |-> range_norm[i],
                     price_score |-> RSub(One, msrp_norm[i]),
                     newness_score |-> year_norm[i],
                     value_score |-> value[i],
                     cafv_bonus |-> CafvBonus(frame[i], cols, cafv_pref)]
        Row(i) == LET s == Parts(i)
                  IN  [range_score |-> s.range_score,
                       price_score |-> s.price_score,
                       newness_score |-> s.newness_score,
                       value_score |-> s.value_score,
                       cafv_bonus |-> s.cafv_bonus,
                       composite_score |-> CompositeScore(w, s)]
    IN  Stored([i \in Range(cand) |-> Row(i)])

(***************************************************************************)
(* sort_values('composite_score', ascending=False): rows of known score in *)
(* non-increasing order, then the rows of NaN score in frame order.  The   *)
(* default sort kind is quicksort, which is not stable: the order of rows  *)
(* of equal score is the build's (numpy's).  A build is one of TieOrders:  *)
(* it leaves equal rows in frame order, or it reverses them.               *)
(***************************************************************************)
TieOrders == {"frame order", "reversed"}

\* Whether row a comes before row b in the sorted frame.  Row labels grow
\* along a frame, and a filtered frame keeps the order of its rows.
Before(sc, tie, a, b) ==
    LET sa == sc[a].composite_score
        sb == sc[b].composite_score
    IN  IF IsNa(sa) /\ IsNa(sb) THEN a < b
        ELSE IF IsNa(sa) THEN FALSE
        ELSE IF IsNa(sb) THEN TRUE
        ELSE IF REq(sa, sb) THEN (IF tie = "frame order" THEN a < b ELSE b < a)
        ELSE RLt(sb, sa)

\* The sorted frame: each row at the position its predecessors leave it.
sort_values(cand, sc, tie) ==
    LET S == Range(cand)
        place == Stored([a \in S |->
                            1 + Cardinality({b \in S \ {a} : Before(sc, tie, b, a)})])
    IN  Stored([k \in 1..Len(cand) |-> CHOOSE a \in S : place[a] = k])

(***************************************************************************)
(* get_diverse_alternatives.  DataFrame.nsmallest / nlargest (pandas 2):   *)
(* the rows of known value come first; when no row of the pool has a known *)
(* value the result is filled with the rows of NaN value in pool order.    *)
(***************************************************************************)
\* pool.nsmallest(1, col).iloc[0]: keep='first'.
NSmallestFirst(frame, pool, col) ==
    LET K == {k \in DOMAIN pool : Cell(frame[pool[k]], col) # NaN}
        best == {k \in K : \A j \in K :
                     Cell(frame[pool[k]], col) <= Cell(frame[pool[j]], col)}
    IN  IF K = {} THEN pool[1] ELSE pool[SetMin(best)]

\* pool.nsmallest(1, col, keep='last').iloc[-1]
NSmallestLast(frame, pool, col) ==
    LET K == {k \in DOMAIN pool : Cell(frame[pool[k]], col) # NaN}
        best == {k \in K : \A j \in K :
                     Cell(frame[pool[k]], col) <= Cell(frame[pool[j]], col)}
    IN  IF K = {} THEN pool[1] ELSE pool[SetMax(best)]

\* pool.nlargest(1, 'value_score').iloc[0]
NLargestValue(pool, sc) ==
    LET K == {k \in DOMAIN pool : ~IsNa(sc[pool[k]].value_score)}
        best == {k \in K : \A j \in K :
                     RLe(sc[pool[j]].value_score, sc[pool[k]].value_score)}
    IN  IF K = {} THEN pool[1] ELSE pool[SetMin(best)]

\* The candidate pool without the exclusion of the used makes.
OtherMakes_AnyMake(frame, ranked_df, used_makes) == ranked_df

\* ranked_df[~ranked_df['Make'].isin(used_makes)]
OtherMakes(frame, ranked_df, used_makes) ==
    LET Unused(i) == frame[i].make \notin used_makes
    IN  SelectSeq(ranked_df, Unused)

\* Strategy 1 taken from every ranked row, whatever its make.
PriceSlot_AnyMake(frame, ranked_df, cols, used_makes) ==
    LET best_price == NSmallestFirst(frame, ranked_df, MSRP)
    IN  IF ranked_df # << >> /\ MSRP \in cols
        THEN << [title |-> "Most Affordable", row |-> best_price,
                 shown |-> FromInt(FillNa(frame[best_price].msrp, 0))] >>
        ELSE << >>

\* Strategy 1: best price from a different brand (lines 671-681).
PriceSlot(frame, ranked_df, cols, used_makes) ==
    LET price_candidates == OtherMakes(frame, ranked_df, used_makes)
        best_price == NSmallestFirst(frame, price_candidates, MSRP)
    IN  IF price_candidates # << >> /\ MSRP \in cols
        THEN << [title |-> "Most Affordable", row |-> best_price,
                 shown |-> FromInt(FillNa(frame[best_price].msrp, 0))] >>
        ELSE << >>

\* Strategy 2: best range from a different brand (lines 683-693).
RangeSlot(frame, ranked_df, cols, used_makes) ==
    LET range_candidates == OtherMakes(frame, ranked_df, used_makes)
        best_range == NSmallestLast(frame, range_candidates, RANGE)
    IN  IF range_candidates # << >> /\ RANGE \in cols
        THEN << [title |-> "Longest Range", row |-> best_range,
                 shown |-> FromInt(FillNa(frame[best_range].range, 0))] >>
        ELSE << >>

\* value_ratio = range_val / (price_val / 1000) if price_val > 0 else 0
ValueRatio(row) ==
    IF row.msrp # NaN /\ row.msrp > 0
    THEN RDiv(RMul(FromInt(row.range), Rat(1000, 1)), FromInt(row.msrp))
    ELSE Zero

\* Strategy 3: best value from a different brand (lines 695-707).
ValueSlot(frame, ranked_df, sc, cols, used_makes) ==
    LET value_candidates == OtherMakes(frame, ranked_df, used_makes)
        best_value == NLargestValue(value_candidates, sc)
    IN  IF value_candidates # << >> /\ RANGE \in cols /\ MSRP \in cols
        THEN << [title |-> "Best Value", row |-> best_value,
                 shown |-> ValueRatio(frame[best_value])] >>
        ELSE << >>

SlotMakes(frame, slot) == {frame[slot[k].row].make : k \in DOMAIN slot}

\* The alternatives with the range slot appended before the price slot.
get_diverse_alternatives_RangeFirst(frame, ranked_df, sc, cols, top_vehicle) ==
    LET used0 == {frame[top_vehicle].make}
        s2 == RangeSlot(frame, ranked_df, cols, used0)
        used1 == used0 \cup SlotMakes(frame, s2)
        s1 == PriceSlot(frame, ranked_df, cols, used1)
        used2 == used1 \cup SlotMakes(frame, s1)
        s3 == ValueSlot(frame, ranked_df, sc, cols, used2)
    IN  HeadRows(s2 \o s1 \o s3, 3)

get_diverse_alternatives(frame, ranked_df, sc, cols, top_vehicle) ==
    LET used0 == {frame[top_vehicle].make}
        s1 == PriceSlot(frame, ranked_df, cols, used0)
        used1 == used0 \cup SlotMakes(frame, s1)
        s2 == RangeSlot(frame, ranked_df, cols, used1)
        used2 == used1 \cup SlotMakes(frame, s2)
        s3 == ValueSlot(frame, ranked_df, sc, cols, used2)
    IN  HeadRows(s1 \o s2 \o s3, 3)

(***************************************************************************)
(* The rendering steps of display_recommendations that can raise.          *)
(***************************************************************************)
\* Line 558: int(top_vehicle['Base MSRP']) stands in the f-string outside of
\* any guard: KeyError without the column, ValueError on NaN.
TopCardRaises(frame, cols, top_vehicle) ==
    MSRP \notin cols \/ frame[top_vehicle].msrp = NaN

\* Lines 573-581: int(top_vehicle.get(col, 0)) raises ValueError on NaN; the
\* source line of the first reason that raises, 0 if none does.
ReasonsRaise(frame, cols, w, top_vehicle) ==
    IF w.price > 35 /\ MSRP \in cols /\ frame[top_vehicle].msrp = NaN THEN 574
    ELSE IF w.range > 35 /\ RANGE \in cols /\ frame[top_vehicle].range = NaN THEN 576
    ELSE IF w.newness > 20 /\ YEAR \in cols /\ frame[top_vehicle].year = NaN THEN 581
    ELSE 0

\* The weight-driven reasons of the top match (lines 572-581).
Reasons(w) ==
    (IF w.price > 35 THEN {"price"} ELSE {})
    \cup (IF w.range > 35 THEN {"range"} ELSE {})
    \cup (IF w.value > 20 THEN {"value"} ELSE {})
    \cup (IF w.newness > 20 THEN {"newness"} ELSE {})

\* ranked.head(10)
TableRows == 10

\* Line 643: astype(int) raises on a NaN composite_score.
TableRaises(ranked_df, sc) ==
    \E k \in DOMAIN HeadRows(ranked_df, TableRows) : IsNa(sc[ranked_df[k]].composite_score)

\* Series.round(0): to the nearest integer, halves to even (r >= 0).
RoundHalfEven(r) ==
    LET q == r.n \div r.d
        rem == r.n % r.d
    IN  IF 2 * rem < r.d THEN q
        ELSE IF 2 * rem > r.d THEN q + 1
        ELSE IF q % 2 = 0 THEN q ELSE q + 1

\* display_df: the first ten ranked rows with their 'Match Score' percent.
ComparisonTable(ranked_df, sc) ==
    [k \in DOMAIN HeadRows(ranked_df, TableRows) |->
        [row |-> ranked_df[k],
         match_score |-> RoundHalfEven(RMul(sc[ranked_df[k]].composite_score,
                                            Rat(100, 1)))]]

\* The source line at which display_recommendations raises, 0 if it returns.
RaisedAt(frame, cols, w, ranked_df, sc) ==
    IF TopCardRaises(frame, cols, ranked_df[1]) THEN 558
    ELSE IF ReasonsRaise(frame, cols, w, ranked_df[1]) # 0
         THEN ReasonsRaise(frame, cols, w, ranked_df[1])
    ELSE IF TableRaises(ranked_df, sc) THEN 643
    ELSE 0


(***************************************************************************)
(* display_recommendations as a whole: what one call leaves on the page.   *)
(* A call that raises at the top card or at the reasons shows nothing      *)
(* after it; a call that raises at the comparison table has shown the      *)
(* alternatives before.                                                    *)
(***************************************************************************)
NothingShown ==
    [weights |-> ZeroWeights, scores |-> << >>, ranked |-> << >>,
     reasons |-> {}, alternatives |-> << >>, table |-> << >>, raised |-> 0]

Render(frame, cols, w, sc, ranked_df) ==
    LET line == RaisedAt(frame, cols, w, ranked_df, sc)
        reached == line = 0 \/ line = 643
    IN  [weights |-> w,
         scores |-> sc,
         ranked |-> ranked_df,
         reasons |-> IF reached THEN Reasons(w) ELSE {},
         alternatives |->
            IF reached
            THEN get_diverse_alternatives(frame, ranked_df, sc, cols, ranked_df[1])
            ELSE << >>,
         table |-> IF line = 0 THEN ComparisonTable(ranked_df, sc) ELSE << >>,
         raised |-> line]

display_recommendations(frame, cand, cols, tie, use_case, method, priorities, cafv_pref) ==
    IF cand = << >> THEN NothingShown
    ELSE LET w == Weights(method, use_case, priorities)
             sc == ScoreFrame(frame, cand, cols, w, cafv_pref)
         IN  Render(frame, cols, w, sc, sort_values(cand, sc, tie))

(***************************************************************************)
(* The notices of an empty filter result.                                  *)
(***************************************************************************)
NoInfo == [from |-> NaN, to |-> NaN, budget |-> ""]

NoNotice == [warning |-> "", info |-> NoInfo]

\* The quick notice suggesting the range minimum it already tried.
QuickNotice_SameRange(min_range, budget_choice) ==
    [warning |-> "No vehicles match these criteria in the current dataset.",
     info |-> [from |-> min_range, to |-> min_range, budget |-> budget_choice]]

QuickNotice(min_range, budget_choice) ==
    [warning |-> "No vehicles match these criteria in the current dataset.",
     info |-> [from |-> min_range, to |-> min_range - RelaxStep,
               budget |-> budget_choice]]

DetailedNotice ==
    [warning |-> "No vehicles match all criteria. Try relaxing some filters.",
     info |-> NoInfo]

(***************************************************************************)
(* The Home page (src/pages, 0_..._Home.py), live range tracking.  Times    *)
(* are                                                                     *)
(* whole minutes.  A battery level is a whole number of BatteryScale-ths   *)
(* of a percent, which holds the drain of a whole minute exactly:          *)
(*   drain % = speed_efficiency * style_factor * 2.0 * (minutes / 60)      *)
(*           = (100 * speed_efficiency) * (10 * style_factor) * minutes    *)
(*             / 30000.                                                    *)
(* A remaining range is battery level * vehicle range, in miles /          *)
(* (100 * BatteryScale).                                                   *)
(***************************************************************************)
BatteryScale == 30000

\* 100.0 %
FullBattery == 100 * BatteryScale

\* Python's None, in a field that holds a place or a time: neither is negative.
None == -1

\* Lines 910-911 and 942-943: the cap of the two histories.
HistoryCap == 100

\* h[-100:] under "if len(h) > 100"
KeepLast(h) ==
    IF Len(h) > HistoryCap THEN SubSeq(h, Len(h) - HistoryCap + 1, Len(h)) ELSE h

\* vehicle_catalog['mean'] of the vehicles the selectbox offers, in its order:
\* the first is the selectbox's default.
VehicleRanges == << 291, 215, 84 >>

\* The places the location widgets can give, numbered; the first (Seattle,
\* 47.6062, -122.3321) is the default.
Locations == << 1, 2 >>

DrivingStyles == << "Eco", "Normal", "Sport" >>

\* style_factor.get(driving_style, 1.0), times 10
style_factor(driving_style) ==
    CASE driving_style = "Eco" -> 7
      [] driving_style = "Normal" -> 10
      [] driving_style = "Sport" -> 14
      [] OTHER -> 10

\* Line 918, times 100: 1.0 up to 45 mph, then 1.0 + (speed - 45) / 100.
speed_efficiency(current_speed) ==
    IF current_speed <= 45 THEN 100 ELSE 100 + (current_speed - 45)

\* Lines 921-923: max(0, 100 - drain_rate * (elapsed_time / 60)).
BatteryAfter(current_speed, driving_style, elapsed_time) ==
    LET battery_drain ==
            speed_efficiency(current_speed) * style_factor(driving_style) * elapsed_time
    IN  IF FullBattery - battery_drain < 0 THEN 0 ELSE FullBattery - battery_drain

\* Lines 313-339: the session state of a new session.
InitialSession ==
    [tracking_enabled |-> FALSE,
     tracking_history |-> << >>,
     start_time |-> 0,
     current_battery |-> FullBattery,
     selected_vehicle_range |-> 250,
     current_speed |-> 0,
     speed_history |-> << >>,
     previous_gps_location |-> None,
     previous_gps_time |-> None,
     total_distance_gps |-> 0,
     user_location |-> None]

\* The script before its first run: at the toggle (line 403), the widgets at
\* their defaults.
HomeStart ==
    [line |-> 403, now |-> 0, switched_on |-> FALSE, vehicle |-> 1,
     location |-> Locations[1], driving_style |-> "Normal", raised |-> 0]

(***************************************************************************)
(* State: the collection and what the last form submission left.           *)
(***************************************************************************)
VARIABLES
    df,            \* df_filtered: the rows, in load order
    columns,       \* the optional columns df has
    tie_order,     \* how the build's quicksort leaves rows of equal score
    submitted,     \* the form of the last submission: none, quick, detailed
    prefs,         \* the form values of the last submission
    after_budget,  \* candidates after the budget filter
    after_range,   \* candidates after the range filter
    candidates,    \* candidates after every filter
    notice,        \* st.warning / st.info of an empty result
    scorer_calls,  \* calls of display_recommendations in the last run
    weights,       \* the weights, in hundredths
    scores,        \* score_df: row -> score columns
    ranked,        \* ranked: rows in ranking order
    reasons,       \* the weight-driven reasons shown
    alternatives,  \* the alternatives shown
    table,         \* the comparison table shown
    raised,        \* the source line the run raised at, 0 if none
    session_state, \* st.session_state of the Home page (live range tracking)
    home           \* the Home page script: its line, the clock, the widgets

vars == << df, columns, tie_order, submitted, prefs, after_budget, after_range, candidates,
           notice, scorer_calls, weights, scores, ranked, reasons, alternatives,
           table, raised, session_state, home >>

\* The form values before any submission: the widgets' defaults.
DefaultPriorities == << "Lowest price", "Longest range", "Brand reputation" >>

DefaultPrefs ==
    [use_case |-> UseCases[1], budget |-> Budgets[1], range_need |-> RangeNeeds[2],
     ev_type_pref |-> "Any (show me all)", brand_pref |-> {}, year_pref |-> NaN,
     cafv_pref |-> NoCafvPref, priorities |-> << >>]

Idle ==
    /\ submitted = "none"
    /\ prefs = DefaultPrefs
    /\ after_budget = << >>
    /\ after_range = << >>
    /\ candidates = << >>
    /\ notice = NoNotice
    /\ scorer_calls = 0
    /\ weights = NothingShown.weights
    /\ scores = NothingShown.scores
    /\ ranked = NothingShown.ranked
    /\ reasons = NothingShown.reasons
    /\ alternatives = NothingShown.alternatives
    /\ table = NothingShown.table
    /\ raised = NothingShown.raised
    /\ session_state = InitialSession
    /\ home = HomeStart

Init ==
    /\ \E rows \in Collections, cols \in ColumnSets :
          /\ df = [k \in DOMAIN rows |-> Project(rows[k], cols)]
          /\ columns = cols
    /\ tie_order \in TieOrders
    /\ Idle

\* Show with a reasons list that is never cleared between calls.
Show_KeepsReasons(res) ==
    /\ weights' = res.weights
    /\ scores' = res.scores
    /\ ranked' = res.ranked
    /\ reasons' = reasons \cup res.reasons
    /\ alternatives' = res.alternatives
    /\ table' = res.table
    /\ raised' = res.raised

Show(res) ==
    /\ weights' = res.weights
    /\ scores' = res.scores
    /\ ranked' = res.ranked
    /\ reasons' = res.reasons
    /\ alternatives' = res.alternatives
    /\ table' = res.table
    /\ raised' = res.raised

(***************************************************************************)
(* The form values a submission is drawn from.  The quick form offers      *)
(* every use case with the two ends of the range slider and four of the    *)
(* budget tiers; the detailed form two profiles, each with the default     *)
(* refinements or with one refinement changed.                             *)
(***************************************************************************)
QuickNeeds == {RangeNeeds[1], RangeNeeds[4]}

QuickBudgets == {Budgets[1], Budgets[2], Budgets[4], Budgets[5]}

DetailedProfiles ==
    {[use_case |-> UseCases[1], range_need |-> RangeNeeds[1]],
     [use_case |-> UseCases[2], range_need |-> RangeNeeds[4]]}

DetailedBudgets == {Budgets[1], Budgets[5]}

\* The "Minimum model year" slider (lines 248-257): its default value, and
\* NaN when the collection has no Model Year column (year_pref is not set).
YearsOf(frame) == {frame[k].year : k \in DOMAIN frame} \ {NaN}

YearDefault(frame, cols) ==
    IF YEAR \notin cols THEN NaN
    ELSE LET year_min == SetMin(YearsOf(frame))
             year_max == SetMax(YearsOf(frame))
         IN  IF year_min > year_max - 3 THEN year_min ELSE year_max - 3

YearChoices(frame, cols) ==
    IF YEAR \notin cols THEN {NaN}
    ELSE {YearDefault(frame, cols), SetMax(YearsOf(frame))}

DefaultRefinement(frame, cols) ==
    [ev_type_pref |-> "Any (show me all)", brand_pref |-> {},
     year_pref |-> YearDefault(frame, cols), cafv_pref |-> "Don't care",
     priorities |-> DefaultPriorities]

Refinements(frame, cols) ==
    LET d == DefaultRefinement(frame, cols)
    IN  {d}
        \cup {[d EXCEPT !.ev_type_pref = t] :
                 t \in {"Battery Electric (BEV only)", "Plug-in Hybrid (PHEV only)"}}
        \cup {[d EXCEPT !.brand_pref = {frame[1].make}]}
        \cup {[d EXCEPT !.year_pref = y] : y \in YearChoices(frame, cols)}
        \cup {[d EXCEPT !.cafv_pref = c] :
                 c \in {"Must be CAFV eligible", "Prefer CAFV eligible"}}
        \cup {[d EXCEPT !.priorities = p] :
                 p \in {<< "Best value (range/price)", "Latest technology",
                           "Brand reputation" >>,
                        << "Longest range", "Longest range", "Longest range" >>}}

(***************************************************************************)
(* "Find My Best Matches": the quick form handler (lines 154-182).         *)
(***************************************************************************)
SubmitQuick ==
    \E use_case \in Range(UseCases), budget_choice \in QuickBudgets,
       range_need \in QuickNeeds :
        LET min_range == range_requirements[use_case][range_need]
            kept == BudgetFilter(df, AllRows(df), columns, budget_choice)
            cand == RangeFilter(df, kept, columns, min_range)
            res == display_recommendations(df, cand, columns, tie_order, use_case,
                                           "quick", << >>, NoCafvPref)
        IN  /\ submitted' = "quick"
            /\ prefs' = [DefaultPrefs EXCEPT !.use_case = use_case,
                                             !.budget = budget_choice,
                                             !.range_need = range_need]
            /\ after_budget' = kept
            /\ after_range' = cand
            /\ candidates' = cand
            /\ IF cand = << >>
               THEN /\ notice' = QuickNotice(min_range, budget_choice)
                    /\ scorer_calls' = 0
                    /\ Show(NothingShown)
               ELSE /\ notice' = NoNotice
                    /\ scorer_calls' = 1
                    /\ Show(res)
            /\ UNCHANGED << session_state, home, df, columns, tie_order >>

(***************************************************************************)
(* "Get Personalized Matches": the detailed form handler (lines 284-347).  *)
(* The form is rendered only if the year slider can be: int() of the       *)
(* minimum of a Model Year column without a known value raises.            *)
(***************************************************************************)
SubmitDetailed ==
    /\ YEAR \in columns => YearsOf(df) # {}
    /\ \E profile \in DetailedProfiles, budget_detailed \in DetailedBudgets,
          ref \in Refinements(df, columns) :
        LET min_range == range_requirements[profile.use_case][profile.range_need]
            kept == BudgetFilter(df, AllRows(df), columns, budget_detailed)
            far == RangeFilter(df, kept, columns, min_range)
            cand == CafvFilter(df,
                        YearFilter(df,
                            BrandFilter(df,
                                TypeFilter(df, far, ref.ev_type_pref),
                                ref.brand_pref),
                            columns, ref.year_pref),
                        columns, ref.cafv_pref)
            res == display_recommendations(df, cand, columns, tie_order,
                                           profile.use_case, "detailed",
                                           ref.priorities, ref.cafv_pref)
        IN  /\ submitted' = "detailed"
            /\ prefs' = [use_case |-> profile.use_case,
                         budget |-> budget_detailed,
                         range_need |-> profile.range_need,
                         ev_type_pref |-> ref.ev_type_pref,
                         brand_pref |-> ref.brand_pref,
                         year_pref |-> ref.year_pref,
                         cafv_pref |-> ref.cafv_pref,
                         priorities |-> ref.priorities]
            /\ after_budget' = kept
            /\ after_range' = far
            /\ candidates' = cand
            /\ IF cand = << >>
               THEN /\ notice' = DetailedNotice
                    /\ scorer_calls' = 0
                    /\ Show(NothingShown)
               ELSE /\ notice' = NoNotice
                    /\ scorer_calls' = 1
                    /\ Show(res)
            /\ UNCHANGED << session_state, home, df, columns, tie_order >>

Next == SubmitQuick \/ SubmitDetailed

Spec == Init /\ [][Next]_vars

(***************************************************************************)
(* The budget and the range filter on their own, on collections priced at  *)
(* and around the tier bounds and with ranges at and around the table's    *)
(* minimums.  Every budget tier and every one of the 20 table entries is   *)
(* applied.                                                                *)
(***************************************************************************)
TierPrices ==
    << 0, 39999, 40000, 40001, NaN, 59999, 60000, 60001, 79999, 80000, 80001,
       999999, 1000000 >>

TierRanges ==
    << 0, 99, 100, NaN, 120, 150, 180, 200, 220, 240, 250, 260, 280, 300, 349, 350 >>

Showroom ==
    [k \in 1..Len(TierRanges) |->
        [make |-> "TESLA", year |-> 2022, range |-> TierRanges[k],
         msrp |-> TierPrices[((k - 1) % Len(TierPrices)) + 1],
         type |-> BEV, cafv |-> CafvEligible]]

\* Up to MaxTierRows consecutive rows of Showroom.
TierCollections ==
    {SubSeq(Showroom, a, b) :
        <<a, b>> \in {w \in (1..Len(Showroom)) \X (1..Len(Showroom)) :
                         w[1] <= w[2] /\ w[2] - w[1] < MaxTierRows}}

InitFilter ==
    /\ \E rows \in TierCollections, cols \in ColumnSets :
          /\ df = [k \in DOMAIN rows |-> Project(rows[k], cols)]
          /\ columns = cols
    /\ tie_order = "frame order"
    /\ Idle

\* Lines 158-164 / 288-294 applied to the whole collection.
FilterBudget ==
    \E budget_choice \in Range(Budgets) :
        /\ submitted' = "budget filter"
        /\ prefs' = [DefaultPrefs EXCEPT !.budget = budget_choice]
        /\ after_budget' = BudgetFilter(df, AllRows(df), columns, budget_choice)
        /\ after_range' = << >>
        /\ candidates' = after_budget'
        /\ UNCHANGED << session_state, home, df, columns, tie_order, notice, scorer_calls, weights, scores,
                        ranked, reasons, alternatives, table, raised >>

\* Lines 166-169 / 296-301 applied to the whole collection.
FilterRange ==
    \E use_case \in Range(UseCases), range_need \in Range(RangeNeeds) :
        /\ submitted' = "range filter"
        /\ prefs' = [DefaultPrefs EXCEPT !.use_case = use_case,
                                         !.range_need = range_need]
        /\ after_budget' = << >>
        /\ after_range' = RangeFilter(df, AllRows(df), columns,
                                      range_requirements[use_case][range_need])
        /\ candidates' = after_range'
        /\ UNCHANGED << session_state, home, df, columns, tie_order, notice, scorer_calls, weights, scores,
                        ranked, reasons, alternatives, table, raised >>

NextFilter == FilterBudget \/ FilterRange

SpecFilter == InitFilter /\ [][NextFilter]_vars

(***************************************************************************)
(* The scorer called a second time on the candidates and the preference    *)
(* profile of the last submission, by the same build.  The submissions are *)
(* those of the detailed form, which sets every argument of the scorer.    *)
(***************************************************************************)
\* A quicksort that flips the order of equal keys from one call to the next.
QuicksortTies_Alternating(tie, calls) ==
    IF calls % 2 = 1 THEN tie ELSE CHOOSE t \in TieOrders : t # tie

\* The order the build's quicksort (line 528) leaves equal keys in on its
\* calls-th call: it draws nothing at random and keeps nothing between calls.
QuicksortTies(tie, calls) == tie

Rerun ==
    /\ scorer_calls = 1
    /\ Show(display_recommendations(df, candidates, columns,
                                    QuicksortTies(tie_order, scorer_calls + 1),
                                    prefs.use_case, submitted, prefs.priorities,
                                    prefs.cafv_pref))
    /\ scorer_calls' = 2
    /\ UNCHANGED << session_state, home, df, columns, tie_order, submitted, prefs, after_budget,
                    after_range, candidates, notice >>

NextRerun == SubmitDetailed \/ Rerun

SpecRerun == Init /\ [][NextRerun]_vars

(***************************************************************************)
(* The weights on their own: every entry of the use-case table and every   *)
(* triple of priority labels.                                              *)
(***************************************************************************)
InitWeights ==
    /\ \E rows \in Collections :
          df = [k \in DOMAIN rows |-> Project(rows[k], OptionalColumns)]
    /\ columns = OptionalColumns
    /\ tie_order = "frame order"
    /\ Idle

\* Lines 488-497: weights = use_case_weights[use_case].
WeighUseCase ==
    \E use_case \in Range(UseCases) :
        /\ submitted' = "use case weights"
        /\ prefs' = [DefaultPrefs EXCEPT !.use_case = use_case]
        /\ weights' = Weights("quick", use_case, << >>)
        /\ UNCHANGED << session_state, home, df, columns, tie_order, after_budget, after_range, candidates,
                        notice, scorer_calls, scores, ranked, reasons, alternatives,
                        table, raised >>

\* Lines 498-516: the weights of the priorities (p1, p2, p3).
WeighPriorities ==
    \E p1 \in PriorityLabels, p2 \in PriorityLabels, p3 \in PriorityLabels :
        /\ submitted' = "priority weights"
        /\ prefs' = [DefaultPrefs EXCEPT !.priorities = << p1, p2, p3 >>]
        /\ weights' = Weights("detailed", DefaultPrefs.use_case, << p1, p2, p3 >>)
        /\ UNCHANGED << session_state, home, df, columns, tie_order, after_budget, after_range, candidates,
                        notice, scorer_calls, scores, ranked, reasons, alternatives,
                        table, raised >>

NextWeights == WeighUseCase \/ WeighPriorities

SpecWeights == InitWeights /\ [][NextWeights]_vars

(***************************************************************************)
(* The weights as the binary64 floats of the source.  A float of [0, 2] is *)
(* held exactly, as a count hi * 2^28 + lo of units of 2^-56; a sum is     *)
(* rounded to the nearest float of its binade, halves to the even one.     *)
(***************************************************************************)
Limb == 268435456

\* The binary64 value of the literal h / 100 of the weight table.
Double(h) ==
    CASE h = 10 -> [hi |-> 26843545, lo |-> 161061274]
      [] h = 15 -> [hi |-> 40265318, lo |-> 107374182]
      [] h = 20 -> [hi |-> 53687091, lo |-> 53687092]
      [] h = 25 -> [hi |-> 67108864, lo |-> 0]
      [] h = 30 -> [hi |-> 80530636, lo |-> 214748364]
      [] h = 35 -> [hi |-> 93952409, lo |-> 161061272]
      [] h = 45 -> [hi |-> 120795955, lo |-> 53687092]
      [] h = 50 -> [hi |-> 134217728, lo |-> 0]

FloatOne == [hi |-> Limb, lo |-> 0]

\* The float next below 1.0: 1 - 2^-53, printed 0.9999999999999999.
BelowOne == [hi |-> Limb - 1, lo |-> Limb - 8]

\* The distance between neighbouring floats at x, in units of 2^-56.
Quantum(x) ==
    IF x.hi >= Limb THEN 16
    ELSE IF x.hi >= Limb \div 2 THEN 8
    ELSE IF x.hi >= Limb \div 4 THEN 4
    ELSE IF x.hi >= Limb \div 8 THEN 2
    ELSE 1

RoundToEven(x) ==
    LET q == Quantum(x)
        r == x.lo % q
        down == x.lo - r
        lo == IF 2 * r < q THEN down
              ELSE IF 2 * r > q THEN down + q
              ELSE IF (down \div q) % 2 = 0 THEN down ELSE down + q
    IN  [hi |-> x.hi + (lo \div Limb), lo |-> lo % Limb]

\* a + b in binary64.
FAdd(a, b) ==
    RoundToEven([hi |-> a.hi + b.hi + ((a.lo + b.lo) \div Limb),
                 lo |-> (a.lo + b.lo) % Limb])

\* price + range + value + newness, added left to right.
Sum64(w) ==
    FAdd(FAdd(FAdd(Double(w.price), Double(w.range)), Double(w.value)),
         Double(w.newness))

FloatZero == [hi |-> 0, lo |-> 0]

\* weights[dim] += amount / 100, in binary64.
Bump64(w, dim, amount) == [w EXCEPT ![dim] = FAdd(@, Double(amount))]

\* Lines 509-513 in binary64: the weights start at 0 and take += 0.50, += 0.30
\* and += 0.20 in this order.
PriorityWeights64(priorities) ==
    Bump64(Bump64(Bump64([price |-> FloatZero, range |-> FloatZero,
                          value |-> FloatZero, newness |-> FloatZero],
                         weight_map_get(priorities[1], "value"), 50),
                  weight_map_get(priorities[2], "price"), 30),
           weight_map_get(priorities[3], "range"), 20)

\* price + range + value + newness of float weights, added left to right.
Total64(w) == FAdd(FAdd(FAdd(w.price, w.range), w.value), w.newness)

\* a <= b for floats.
FLe(a, b) == a.hi < b.hi \/ (a.hi = b.hi /\ a.lo <= b.lo)

(***************************************************************************)
(* The Home page script, one run after another.  A run goes through the    *)
(* tracking toggle (lines 403-415), the tracking sidebar (417-519) and the *)
(* live tracking display (844-1155); home.line is the line it stands at.   *)
(* "Reset Tracking" ends the run at once (st.rerun).  Time passes between  *)
(* and within runs.                                                        *)
(***************************************************************************)
MaxTime == 4

advisor_vars ==
    << df, columns, tie_order, submitted, prefs, after_budget, after_range, candidates,
       notice, scorer_calls, weights, scores, ranked, reasons, alternatives, table,
       raised >>

InitHome ==
    /\ df = [k \in 1..MinVehicles |-> Project(Catalogue[k], OptionalColumns)]
    /\ columns = OptionalColumns
    /\ tie_order = "frame order"
    /\ Idle

\* datetime.now() grows.
Tick ==
    /\ home.now < MaxTime
    /\ home' = [home EXCEPT !.now = @ + 1]
    /\ UNCHANGED << session_state, advisor_vars >>

\* The tracking toggle with tracking cleared as well as restarted.
ToggleOn_ClearsSpeed ==
    /\ home.line = 403
    /\ ~session_state.tracking_enabled
    /\ session_state' = [session_state EXCEPT !.tracking_enabled = TRUE,
                                               !.start_time = home.now,
                                               !.tracking_history = << >>,
                                               !.speed_history = << >>,
                                               !.previous_gps_location = None,
                                               !.previous_gps_time = None,
                                               !.current_battery = FullBattery]
    /\ home' = [home EXCEPT !.line = 417, !.switched_on = TRUE, !.raised = 0,
                            !.vehicle = 1, !.location = Locations[1],
                            !.driving_style = "Normal"]
    /\ UNCHANGED advisor_vars

\* Lines 403-415, the toggle switched from off to on.  The widgets of the
\* tracking sidebar are created anew, at their defaults.
ToggleOn ==
    /\ home.line = 403
    /\ ~session_state.tracking_enabled
    /\ session_state' = [session_state EXCEPT !.tracking_enabled = TRUE,
                                               !.start_time = home.now,
                                               !.tracking_history = << >>,
                                               !.current_battery = FullBattery]
    /\ home' = [home EXCEPT !.line = 417, !.switched_on = TRUE, !.raised = 0,
                            !.vehicle = 1, !.location = Locations[1],
                            !.driving_style = "Normal"]
    /\ UNCHANGED advisor_vars

\* Lines 403-415, the toggle switched from on to off.
ToggleOff ==
    /\ home.line = 403
    /\ session_state.tracking_enabled
    /\ session_state' = [session_state EXCEPT !.tracking_enabled = FALSE]
    /\ home' = [home EXCEPT !.line = 417, !.switched_on = FALSE, !.raised = 0]
    /\ UNCHANGED advisor_vars

\* Lines 403-415, the toggle as it was.
ToggleKept ==
    /\ home.line = 403
    /\ home' = [home EXCEPT !.line = 417, !.switched_on = FALSE, !.raised = 0]
    /\ UNCHANGED << session_state, advisor_vars >>

\* Lines 417-519 without "Reset Tracking": the vehicle and the location
\* widgets write the session state.  In the run that switched tracking on
\* the widgets are at their defaults.
Sidebar ==
    /\ home.line = 417
    /\ IF session_state.tracking_enabled
       THEN \E vehicle \in DOMAIN VehicleRanges, location \in Range(Locations),
               driving_style \in Range(DrivingStyles) :
                /\ home.switched_on =>
                      /\ vehicle = home.vehicle
                      /\ location = home.location
                      /\ driving_style = home.driving_style
                /\ session_state' =
                      [session_state EXCEPT
                          !.selected_vehicle_range = VehicleRanges[vehicle],
                          !.user_location = location]
                /\ home' = [home EXCEPT !.line = 844, !.vehicle = vehicle,
                                        !.location = location,
                                        !.driving_style = driving_style]
       ELSE /\ home' = [home EXCEPT !.line = 844]
            /\ UNCHANGED session_state
    /\ UNCHANGED advisor_vars

\* Lines 417-519 with "Reset Tracking" pressed (515-519): the widgets are as
\* in the run before, the run ends with st.rerun().
ResetTracking ==
    /\ home.line = 417
    /\ session_state.tracking_enabled
    /\ ~home.switched_on
    /\ session_state' =
          [session_state EXCEPT
              !.selected_vehicle_range = VehicleRanges[home.vehicle],
              !.user_location = home.location,
              !.tracking_history = << >>,
              !.start_time = home.now,
              !.current_battery = FullBattery]
    /\ home' = [home EXCEPT !.line = 403]
    /\ UNCHANGED advisor_vars

\* Lines 844-1155.  With tracking off the run ends.  The first reading
\* (no previous GPS location, lines 886-889) appends to both histories and
\* sets the battery; the run sleeps and reruns.  With a previous location,
\* line 873 calls calculate_gps_distance, a name no line of the repository
\* defines (the Haversine helper of line 291 is haversine_distance_miles):
\* NameError, the run ends there with the session state as it was.
TrackingUpdate ==
    /\ home.line = 844
    /\ IF ~session_state.tracking_enabled
       THEN /\ home' = [home EXCEPT !.line = 403]
            /\ UNCHANGED session_state
       ELSE IF /\ session_state.previous_gps_location # None
               /\ session_state.previous_gps_time # None
       THEN /\ home' = [home EXCEPT !.line = 403, !.raised = 873]
            /\ UNCHANGED session_state
       ELSE LET elapsed_time == home.now - session_state.start_time
                current_speed == 0
                speed_delta ==
                    IF Len(session_state.speed_history) > 0
                    THEN current_speed
                         - session_state.speed_history[
                               Len(session_state.speed_history)].speed
                    ELSE 0
                current_battery ==
                    BatteryAfter(current_speed, home.driving_style, elapsed_time)
                current_range ==
                    current_battery * session_state.selected_vehicle_range
            IN  /\ session_state' =
                      [session_state EXCEPT
                          !.current_speed = current_speed,
                          !.total_distance_gps = 0,
                          !.previous_gps_location = session_state.user_location,
                          !.previous_gps_time = home.now,
                          !.speed_history =
                              KeepLast(Append(@,
                                  [timestamp |-> home.now, speed |-> current_speed,
                                   elapsed_minutes |-> elapsed_time,
                                   speed_delta |-> speed_delta])),
                          !.current_battery = current_battery,
                          !.tracking_history =
                              KeepLast(Append(@,
                                  [timestamp |-> home.now,
                                   battery_percent |-> current_battery,
                                   range_miles |-> current_range,
                                   elapsed_minutes |-> elapsed_time,
                                   distance_traveled |-> 0,
                                   current_speed |-> current_speed]))]
                /\ home' = [home EXCEPT !.line = 403]
    /\ UNCHANGED advisor_vars

NextHome ==
    \/ Tick
    \/ ToggleOn
    \/ ToggleOff
    \/ ToggleKept
    \/ Sidebar
    \/ ResetTracking
    \/ TrackingUpdate

SpecHome == InitHome /\ [][NextHome]_vars

(***************************************************************************)
(* What the last run left on the page, read back from the state.           *)
(***************************************************************************)
MakeOf(i) == df[i].make

\* get_diverse_alternatives was called: the run got past the reasons.
AlternativesCalled == scorer_calls = 1 /\ raised \in {0, 643}

SlotsTitled(t) == {k \in DOMAIN alternatives : alternatives[k].title = t}

HasSlot(t) == SlotsTitled(t) # {}

SlotRow(t) == alternatives[CHOOSE k \in SlotsTitled(t) : TRUE].row

SlotTitles == << "Most Affordable", "Longest Range", "Best Value" >>

TitleIndex(t) == CHOOSE n \in DOMAIN SlotTitles : SlotTitles[n] = t

\* The makes used before the slot with title number n: the top match's make
\* and the makes of the returned slots with a smaller title number.
MakesUsedBefore(n) ==
    {MakeOf(ranked[1])}
    \cup {MakeOf(alternatives[k].row) :
             k \in {j \in DOMAIN alternatives : TitleIndex(alternatives[j].title) < n}}

UnusedBefore(n) == {i \in Range(ranked) : MakeOf(i) \notin MakesUsedBefore(n)}

SlotColumns(n) ==
    CASE n = 1 -> {MSRP}
      [] n = 2 -> {RANGE}
      [] n = 3 -> {RANGE, MSRP}

SlotsInOrder ==
    /\ Len(alternatives) <= 3
    /\ \A k \in DOMAIN alternatives : alternatives[k].title \in Range(SlotTitles)
    /\ \A j, k \in DOMAIN alternatives :
          j < k => TitleIndex(alternatives[j].title) < TitleIndex(alternatives[k].title)

MinRangeOf(p) == range_requirements[p.use_case][p.range_need]

(***************************************************************************)
(* C1.  Whenever the "Longest Range" alternative is returned, its vehicle  *)
(* has the maximum Electric Range among the ranked candidates whose make   *)
(* is neither the top match's nor the "Most Affordable" slot's.            *)
(* The code takes nsmallest there: the statement is violated.              *)
(***************************************************************************)
C1_LongestRangeIsMaximum ==
    (AlternativesCalled /\ HasSlot("Longest Range")) =>
        \A i \in UnusedBefore(2) :
            df[i].range # NaN =>
                /\ df[SlotRow("Longest Range")].range # NaN
                /\ df[SlotRow("Longest Range")].range >= df[i].range

(***************************************************************************)
(* C2.  The makes of the returned alternatives are pairwise distinct and   *)
(* none of them is the top match's make.                                   *)
(***************************************************************************)
C2_AlternativeMakesDistinct ==
    /\ \A k \in DOMAIN alternatives : MakeOf(alternatives[k].row) # MakeOf(ranked[1])
    /\ \A j, k \in DOMAIN alternatives :
          j # k => MakeOf(alternatives[j].row) # MakeOf(alternatives[k].row)

\* Three alternatives are returned, from a ranking that repeats a make.
C2_ThreeAlternatives ==
    /\ Len(alternatives) = 3
    /\ \E j, k \in DOMAIN ranked : j # k /\ MakeOf(ranked[j]) = MakeOf(ranked[k])

(***************************************************************************)
(* C3.  Whenever the "Most Affordable" alternative is returned, its        *)
(* vehicle has the minimum known Base MSRP among the ranked candidates of  *)
(* another make than the top match's.  Violated when none of them has a    *)
(* known price: the slot is then returned with a vehicle of unknown price. *)
(***************************************************************************)
C3_MostAffordableIsCheapestKnown ==
    (AlternativesCalled /\ HasSlot("Most Affordable")) =>
        /\ df[SlotRow("Most Affordable")].msrp # NaN
        /\ \A i \in UnusedBefore(1) :
              df[i].msrp # NaN => df[SlotRow("Most Affordable")].msrp <= df[i].msrp

(***************************************************************************)
(* C4.  Whenever the "Best Value" alternative is returned, its vehicle has *)
(* the maximum value_score among the ranked candidates whose make is not   *)
(* the top match's, the "Most Affordable" slot's or the "Longest Range"    *)
(* slot's.  Violated when none of them has a value_score: the slot is then *)
(* returned with a vehicle whose value_score is NaN.                       *)
(***************************************************************************)
C4_BestValueIsMaximum ==
    (AlternativesCalled /\ HasSlot("Best Value")) =>
        /\ ~IsNa(scores[SlotRow("Best Value")].value_score)
        /\ \A i \in UnusedBefore(3) :
              ~IsNa(scores[i].value_score) =>
                  RLe(scores[i].value_score,
                      scores[SlotRow("Best Value")].value_score)

C6_UnknownPricePassesOnlyNoPreference ==
    (submitted \in {"quick", "detailed"} /\ MSRP \in columns) =>
        \A i \in Range(after_budget) :
            df[i].msrp = NaN => prefs.budget = "No preference"

(***************************************************************************)
(* C7.  A vehicle of known Base MSRP p passes the budget filter of a tier  *)
(* (min, max) iff min <= p <= max, both inclusive: a vehicle at 40000 is   *)
(* kept by both tiers that meet there.                                     *)
(***************************************************************************)
C7_KnownPriceKeptIffWithinTier ==
    submitted = "budget filter" =>
        \A i \in DOMAIN df :
            df[i].msrp # NaN =>
                /\ i \in Range(after_budget) <=>
                      /\ budget_ranges[prefs.budget][1] <= df[i].msrp
                      /\ df[i].msrp <= budget_ranges[prefs.budget][2]
                /\ (/\ df[i].msrp = 40000
                    /\ prefs.budget \in {"Budget-conscious (< $40k)",
                                         "Mid-range ($40k - $60k)"})
                   => i \in Range(after_budget)

\* The vehicle at 40000 is kept under "Budget-conscious (< $40k)", the one
\* next to it at 40001 is not.
C7_BoundaryKept ==
    /\ submitted = "budget filter"
    /\ prefs.budget = "Budget-conscious (< $40k)"
    /\ \E i \in Range(after_budget) : df[i].msrp = 40000
    /\ \E i \in DOMAIN df : df[i].msrp = 40001 /\ i \notin Range(after_budget)

C10_ScorerNeverRaises == scorer_calls = 1 => raised = 0

(***************************************************************************)
(* The candidate set as the scorer sees it, read back from the state.      *)
(***************************************************************************)
ScorerRan == scorer_calls = 1

\* The known values of a column among the candidates.
KnownIn(col) == {Cell(df[i], col) : i \in Range(candidates)} \ {NaN}

\* The column is absent, has no known value, or one known value only.
Degenerate(col) == col \notin columns \/ Cardinality(KnownIn(col)) < 2

\* The candidates whose ratio range / (price + 1) can be computed.
WithRatio ==
    {i \in Range(candidates) :
        /\ RANGE \in columns /\ MSRP \in columns
        /\ df[i].range # NaN /\ df[i].msrp # NaN}

\* ratio(a) < ratio(b), by cross-multiplication (prices are >= 0).
RatioLess(a, b) == df[a].range * (df[b].msrp + 1) < df[b].range * (df[a].msrp + 1)

RatioOf(i) == RDiv(FromInt(df[i].range), FromInt(df[i].msrp + 1))

\* Fewer than two distinct ratios among the candidates.
RatioDegenerate == ~ \E a, b \in WithRatio : RatioLess(a, b)

ComponentScores(i) ==
    {scores[i].price_score, scores[i].range_score, scores[i].value_score,
     scores[i].newness_score}

(***************************************************************************)
(* C11.  For each of Electric Range, Base MSRP and Model Year: if the      *)
(* column is absent, has no known value or all its known values among the  *)
(* candidates are equal, the component score (range_score, price_score,    *)
(* newness_score) is exactly 0.5 for every candidate; value_score is 0.5   *)
(* for every candidate when the ratio range / (price + 1) is constant or   *)
(* cannot be computed.                                                     *)
(***************************************************************************)
C11_DegenerateColumnScoresHalf ==
    ScorerRan =>
        \A i \in Range(candidates) :
            /\ Degenerate(RANGE) => scores[i].range_score = Half
            /\ Degenerate(MSRP) => scores[i].price_score = Half
            /\ Degenerate(YEAR) => scores[i].newness_score = Half
            /\ RatioDegenerate => scores[i].value_score = Half

\* Two candidates, one of unknown price: the price column has one known
\* value and no two ratios, while the years differ.
C11_OneKnownPrice ==
    /\ ScorerRan
    /\ MSRP \in columns /\ RANGE \in columns
    /\ Len(candidates) >= 2
    /\ \E i \in Range(candidates) : df[i].msrp = NaN
    /\ Cardinality(KnownIn(MSRP)) = 1
    /\ ~Degenerate(YEAR)
    /\ \A i \in Range(candidates) :
          scores[i].price_score = Half /\ scores[i].value_score = Half

(***************************************************************************)
(* C12.  For every candidate of every non-empty candidate set, also one of *)
(* unknown Base MSRP or Model Year among candidates of known, differing    *)
(* values, each of price_score, range_score, value_score and newness_score *)
(* is a defined number in [0, 1].  Violated: the score of a candidate of   *)
(* unknown value in a column that varies is NaN.                           *)
(***************************************************************************)
C12_ScoresInUnitInterval ==
    ScorerRan =>
        \A i \in Range(candidates) : \A x \in ComponentScores(i) :
            ~IsNa(x) /\ RLe(Zero, x) /\ RLe(x, One)

(***************************************************************************)
(* C13.  With at least two distinct known Base MSRP values among the       *)
(* candidates, price_score is strictly decreasing in Base MSRP over the    *)
(* candidates of known price; the cheapest scores 1, the most expensive 0. *)
(***************************************************************************)
C13_PriceScoreStrictlyDecreasing ==
    (ScorerRan /\ Cardinality(KnownIn(MSRP)) >= 2) =>
        \A a \in Range(candidates) :
            df[a].msrp # NaN =>
                /\ \A b \in Range(candidates) :
                      (df[b].msrp # NaN /\ df[a].msrp < df[b].msrp) =>
                          RLt(scores[b].price_score, scores[a].price_score)
                /\ (\A p \in KnownIn(MSRP) : df[a].msrp <= p) =>
                       scores[a].price_score = One
                /\ (\A p \in KnownIn(MSRP) : df[a].msrp >= p) =>
                       scores[a].price_score = Zero

\* Three distinct known prices among the candidates.
C13_ThreePrices == ScorerRan /\ Cardinality(KnownIn(MSRP)) >= 3

(***************************************************************************)
(* C14.  With at least two distinct values of the ratio range/(price + 1)  *)
(* among the candidates, value_score of a candidate is                     *)
(* (ratio - min ratio) / (max ratio - min ratio): the largest ratio scores *)
(* 1, the smallest 0, and a larger ratio never gets a smaller value_score. *)
(***************************************************************************)
C14_ValueScoreIsNormalisedRatio ==
    (ScorerRan /\ ~RatioDegenerate) =>
        LET lo == CHOOSE a \in WithRatio : \A b \in WithRatio : ~RatioLess(b, a)
            hi == CHOOSE a \in WithRatio : \A b \in WithRatio : ~RatioLess(a, b)
        IN  \A a \in WithRatio :
                /\ scores[a].value_score =
                       RDiv(RSub(RatioOf(a), RatioOf(lo)),
                            RSub(RatioOf(hi), RatioOf(lo)))
                /\ ~RatioLess(a, hi) => scores[a].value_score = One
                /\ ~RatioLess(lo, a) => scores[a].value_score = Zero
                /\ \A b \in WithRatio :
                      RatioLess(a, b) =>
                          RLt(scores[a].value_score, scores[b].value_score)

\* Three candidates of pairwise different ratios.
C14_ThreeRatios ==
    /\ ScorerRan
    /\ \E a, b, c \in WithRatio : RatioLess(a, b) /\ RatioLess(b, c)

(***************************************************************************)
(* C15.  The CAFV bonus of a candidate is 0.1 iff the user chose "Prefer   *)
(* CAFV eligible" and the candidate's CAFV text contains "eligible",       *)
(* whatever the case of its letters; it is 0 in quick mode, under "Don't   *)
(* care" and "Must be CAFV eligible", for an unknown or other text and     *)
(* without the column.                                                     *)
(***************************************************************************)
C15_CafvBonusIffPreferredAndEligible ==
    ScorerRan =>
        \A i \in Range(candidates) :
            scores[i].cafv_bonus =
                IF /\ submitted = "detailed"
                   /\ prefs.cafv_pref = "Prefer CAFV eligible"
                   /\ CAFV \in columns
                   /\ df[i].cafv \in {"Clean Alternative Fuel Vehicle Eligible",
                                      "Not eligible due to low battery range"}
                THEN Rat(1, 10)
                ELSE Zero

\* Under "Prefer CAFV eligible": a bonus for "... Eligible" with a capital
\* E, none for "Eligibility unknown ...".
C15_BonusGiven ==
    /\ ScorerRan
    /\ prefs.cafv_pref = "Prefer CAFV eligible"
    /\ \E i \in Range(candidates) :
          /\ df[i].cafv = "Clean Alternative Fuel Vehicle Eligible"
          /\ scores[i].cafv_bonus = Rat(1, 10)
    /\ \E i \in Range(candidates) :
          /\ df[i].cafv = "Eligibility unknown as battery range has not been researched"
          /\ scores[i].cafv_bonus = Zero

(***************************************************************************)
(* C16 (amended).  For each of the 5 entries of the use-case weight table  *)
(* the four weights, as the decimal numbers written in the source, sum to  *)
(* 1.  As binary64 floats added in the order price, range, value, newness  *)
(* the sum is exactly 1.0 for three entries and 0.9999999999999999 for     *)
(* "Family hauling & errands" and "General purpose / Not sure".            *)
(***************************************************************************)
C16_WeightsSumToOneInDecimal ==
    submitted = "use case weights" =>
        /\ weights.price + weights.range + weights.value + weights.newness = 100
        /\ Sum64(weights) =
              IF prefs.use_case \in {"Family hauling & errands",
                                     "General purpose / Not sure"}
              THEN BelowOne ELSE FloatOne

\* C16 as stated: the float sum of every entry is exactly 1.0.
C16_WeightsSumToExactlyOne ==
    submitted = "use case weights" => Sum64(weights) = FloatOne

\* The family entry 0.35, 0.30, 0.25, 0.10 and its float sum below 1.0.
C16_FamilyEntry ==
    /\ submitted = "use case weights"
    /\ prefs.use_case = "Family hauling & errands"
    /\ weights = [price |-> 35, range |-> 30, value |-> 25, newness |-> 10]
    /\ Sum64(weights) = BelowOne

(***************************************************************************)
(* C17.  In priority mode, for every triple of priority labels, the weight *)
(* of a dimension is 0.50 if p1 maps to it plus 0.30 if p2 does plus 0.20  *)
(* if p3 does, with Lowest price -> price, Longest range -> range, Best    *)
(* value -> value, Brand reputation and Latest technology -> newness; the  *)
(* contributions add up and are not renormalised.                          *)
(***************************************************************************)
C17_Dimension(label) ==
    CASE label = "Lowest price" -> "price"
      [] label = "Longest range" -> "range"
      [] label = "Best value (range/price)" -> "value"
      [] label \in {"Brand reputation", "Latest technology"} -> "newness"

C17_PriorityWeightsAccumulate ==
    submitted = "priority weights" =>
        \A dim \in {"price", "range", "value", "newness"} :
            weights[dim] =
                (IF C17_Dimension(prefs.priorities[1]) = dim THEN 50 ELSE 0)
                + (IF C17_Dimension(prefs.priorities[2]) = dim THEN 30 ELSE 0)
                + (IF C17_Dimension(prefs.priorities[3]) = dim THEN 20 ELSE 0)

\* Brand reputation first and Latest technology second: newness gets 0.80.
C17_TwoRanksOneDimension ==
    /\ submitted = "priority weights"
    /\ prefs.priorities = << "Brand reputation", "Latest technology", "Lowest price" >>
    /\ weights = [price |-> 20, range |-> 0, value |-> 0, newness |-> 80]

\* The composite score of a ranked position.
ScoreAt(k) == scores[ranked[k]].composite_score

(***************************************************************************)
(* C18.  Each candidate's composite_score equals w_price * price_score +   *)
(* w_range * range_score + w_value * value_score + w_newness *             *)
(* newness_score + cafv_bonus, the ranking lists the candidates in         *)
(* non-increasing composite_score, and the first ranked entry has a        *)
(* composite_score >= that of every other candidate.                       *)
(***************************************************************************)
C18_RankedByCompositeScore ==
    ScorerRan =>
        /\ \A i \in Range(candidates) :
              scores[i].composite_score = CompositeScore(weights, scores[i])
        /\ Range(ranked) = Range(candidates) /\ Len(ranked) = Len(candidates)
        /\ \A k \in 1..(Len(ranked) - 1) : RLe(ScoreAt(k + 1), ScoreAt(k))
        /\ \A k \in 2..Len(ranked) : RLe(ScoreAt(k), ScoreAt(1))

(***************************************************************************)
(* C19.  When two candidates have equal composite_score, the one earlier   *)
(* in the input (load) order is earlier in the ranking: the descending     *)
(* sort is stable.                                                         *)
(***************************************************************************)
C19_TiesKeepLoadOrder ==
    ScorerRan =>
        \A k \in DOMAIN ranked, l \in DOMAIN ranked :
            (k < l /\ REq(ScoreAt(k), ScoreAt(l))) => ranked[k] < ranked[l]

WholeFrame == [k \in 1..Len(df) |-> k]

\* What the page shows, as one record.
Shown ==
    [weights |-> weights, scores |-> scores, ranked |-> ranked, reasons |-> reasons,
     alternatives |-> alternatives, table |-> table, raised |-> raised]

\* The candidates the last submission's form values select from df.
FreshCandidates ==
    LET min_range == range_requirements[prefs.use_case][prefs.range_need]
        far == RangeFilter(df, BudgetFilter(df, WholeFrame, columns, prefs.budget),
                           columns, min_range)
    IN  IF submitted = "quick" THEN far
        ELSE CafvFilter(df,
                 YearFilter(df,
                     BrandFilter(df, TypeFilter(df, far, prefs.ev_type_pref),
                                 prefs.brand_pref),
                     columns, prefs.year_pref),
                 columns, prefs.cafv_pref)

\* What the last submission's form values give on df, whatever came before.
FreshResult ==
    IF FreshCandidates = << >> THEN NothingShown
    ELSE display_recommendations(df, FreshCandidates, columns, tie_order,
                                 prefs.use_case, submitted, prefs.priorities,
                                 prefs.cafv_pref)

C22_ReasonsFollowWeights ==
    ScorerRan =>
        /\ "price" \in reasons <=> weights.price > 35
        /\ "range" \in reasons <=> weights.range > 35
        /\ "value" \in reasons <=> weights.value > 20
        /\ "newness" \in reasons <=> weights.newness > 20
        /\ reasons \subseteq {"price", "range", "value", "newness"}

\* Every candidate has the make of the top match.
OneMake == \A i \in Range(candidates) : MakeOf(i) = MakeOf(ranked[1])

(***************************************************************************)
(* C23.  If every candidate that survives the filters has the same make as *)
(* the top match (in particular a single candidate), the ranking still has *)
(* a top match and get_diverse_alternatives returns zero alternatives.     *)
(***************************************************************************)
C23_OneMakeNoAlternatives ==
    ScorerRan =>
        /\ ranked # << >>
        /\ ranked[1] \in Range(candidates)
        /\ OneMake =>
              /\ get_diverse_alternatives(df, ranked, scores, columns, ranked[1]) = << >>
              /\ alternatives = << >>

\* Two candidates of the top match's make and no other, with
\* get_diverse_alternatives called.
C23_TwoOfOneMake ==
    /\ AlternativesCalled
    /\ Len(candidates) >= 2
    /\ OneMake
    /\ alternatives = << >>

\* m is an integer nearest to 100 * r.
NearestPercent(r, m) ==
    /\ ~IsNa(r)
    /\ 2 * Abs(100 * r.n - m * r.d) <= r.d

(***************************************************************************)
(* C24.  The comparison table contains exactly the first min(10, n)        *)
(* candidates of the ranking, in ranking order, and shows each one's       *)
(* composite_score as an integer percentage equal to composite_score * 100 *)
(* rounded to the nearest integer.                                         *)
(***************************************************************************)
C24_TableShowsTopTen ==
    ScorerRan =>
        /\ Len(table) = (IF Len(ranked) < 10 THEN Len(ranked) ELSE 10)
        /\ \A k \in DOMAIN table :
              /\ table[k].row = ranked[k]
              /\ NearestPercent(ScoreAt(k), table[k].match_score)

\* The labels of the form and one label weight_map does not have.
AnyLabels == PriorityLabels \cup {"Safety rating"}

\* The weights of a triple sum to 1 and lie in [0, 1], in hundredths and as
\* the binary64 floats the source accumulates.
SumToOne(triple) ==
    LET w == Weights("detailed", UseCases[1], triple)
        f == PriorityWeights64(triple)
    IN  /\ w.price + w.range + w.value + w.newness = 100
        /\ \A dim \in DOMAIN w : 0 <= w[dim] /\ w[dim] <= 100
        /\ Total64(f) = FloatOne
        /\ \A dim \in DOMAIN f : FLe(FloatZero, f[dim]) /\ FLe(f[dim], FloatOne)

(***************************************************************************)
(* C25.  In priority (detailed) mode, for every triple of labels p1, p2,   *)
(* p3 (recognized or not, repeated or not) the four resulting weights sum  *)
(* to exactly 1.0 and each lies in [0, 1].                                 *)
(***************************************************************************)
C25_PriorityWeightsSumToOne ==
    submitted = "priority weights" =>
        /\ weights = Weights("detailed", UseCases[1], prefs.priorities)
        /\ weights.price + weights.range + weights.value + weights.newness = 100
        /\ SumToOne(prefs.priorities)
        /\ \A p1 \in AnyLabels, p2 \in AnyLabels, p3 \in AnyLabels :
              SumToOne(<< p1, p2, p3 >>)

\* One label three times: the whole weight on one dimension.
C25_OneLabelThrice ==
    /\ submitted = "priority weights"
    /\ prefs.priorities = << "Longest range", "Longest range", "Longest range" >>
    /\ weights = [price |-> 0, range |-> 100, value |-> 0, newness |-> 0]
    /\ PriorityWeights64(prefs.priorities).range = FloatOne

\* The four component scores of candidate i are numbers.
ScoresDefined(i) == \A x \in ComponentScores(i) : ~IsNa(x)

(***************************************************************************)
(* C26.  For every candidate whose four component scores are defined,      *)
(* composite_score lies in [0, 1.1], and in [0, 1.0] whenever that         *)
(* candidate's CAFV bonus is 0, in quick and in priority mode.             *)
(***************************************************************************)
C26_CompositeScoreBounded ==
    ScorerRan =>
        \A i \in Range(candidates) :
            ScoresDefined(i) =>
                /\ ~IsNa(scores[i].composite_score)
                /\ RLe(Zero, scores[i].composite_score)
                /\ RLe(scores[i].composite_score, Rat(11, 10))
                /\ REq(scores[i].cafv_bonus, Zero) =>
                      RLe(scores[i].composite_score, One)

\* Priority mode: a candidate with the bonus scoring above 0.5, next to one
\* without the bonus.
C26_ScoredWithBonus ==
    /\ ScorerRan
    /\ submitted = "detailed"
    /\ \E i \in Range(candidates) :
          /\ ScoresDefined(i)
          /\ REq(scores[i].cafv_bonus, Rat(1, 10))
          /\ RLt(Half, scores[i].composite_score)
    /\ \E i \in Range(candidates) :
          ScoresDefined(i) /\ REq(scores[i].cafv_bonus, Zero)

(***************************************************************************)
(* C28.  In every reachable session state of the Home page current_battery *)
(* is within [0, 100], and the remaining range recorded in each            *)
(* tracking_history entry is within [0, selected_vehicle_range].           *)
(***************************************************************************)
C28_BatteryAndRangeWithinBounds ==
    /\ 0 <= session_state.current_battery
    /\ session_state.current_battery <= FullBattery
    /\ \A k \in DOMAIN session_state.tracking_history :
          /\ 0 <= session_state.tracking_history[k].range_miles
          /\ session_state.tracking_history[k].range_miles
                <= FullBattery * session_state.selected_vehicle_range

\* The fields the toggle and "Reset Tracking" leave alone.
GpsFields(ss) ==
    << ss.speed_history, ss.previous_gps_location, ss.previous_gps_time,
       ss.total_distance_gps >>

\* Tracking restarted: battery 100, no tracking history, start_time now.
Restarted(ss, now) ==
    /\ ss.current_battery = FullBattery
    /\ ss.tracking_history = << >>
    /\ ss.start_time = now

=============================================================================
